---- MODULE Spec2Model ----
(***************************************************************************)
(* otgen "run" command (cmd/run.go): apply an OTG configuration, start     *)
(* transmission, poll metrics until the completion policy reports that     *)
(* traffic is no longer running, stop transmission.                        *)
(*                                                                         *)
(* Durations are int64 nanoseconds as in Go's time.Duration.  float32      *)
(* values are modelled as a 24-bit significand m and a binary exponent e   *)
(* (value m * 2^e), with round-to-nearest-even conversions, because the    *)
(* forced-stop test of isTrafficRunningWithETA is done in float32.         *)
(***************************************************************************)
EXTENDS Integers, Sequences, FiniteSets, TLC

VARIABLES
    otgMetrics,       \* --metrics flag: "port", "flow" or anything else
    xetaFlag,         \* --xeta as given: <<>> when absent, <<x>> when given as x
    xeta,             \* the xeta variable, a float32: [n, k] stands for n / 2^k
    otgPullIntervalStr, \* --interval flag as given
    otgPullInterval,  \* the parsed --interval, nanoseconds
    input,            \* what initOTG finds: "ok", "unreadable" or "malformed"
    config,           \* the configuration: a sequence of flows [packets, pps]
    pc,               \* position in Run / runTraffic (or in the unit harness)
    calls,            \* the remote calls issued so far, in order, with their outcome
    metrics,          \* the last metrics snapshot fetched: [ports, flows]
    targetTx,         \* runTraffic's targetTx
    trafficETA,       \* runTraffic's trafficETA, nanoseconds
    start,            \* runTraffic's start (time.Now() after the first fetch)
    now,              \* the wall clock, nanoseconds
    since,            \* the values time.Since(start) returned to the last policy evaluation
    running,          \* what the last policy evaluation returned
    nCalc,            \* number of calculateTrafficTargets calls
    nSleep,           \* number of time.Sleep calls
    nEval,            \* number of policy evaluations
    nOut,             \* number of raw JSON snapshots written to stdout
    lastOut,          \* the last snapshot written to stdout
    nWarn,            \* number of forced-stop warnings logged
    nInfo             \* number of server warnings logged by checkResponse

vars == <<otgMetrics, xetaFlag, xeta, otgPullIntervalStr, otgPullInterval, input, config, pc, calls, metrics,
          targetTx, trafficETA, start, now, since, running,
          nCalc, nSleep, nEval, nOut, lastOut, nWarn, nInfo>>

----------------------------------------------------------------------------
(* Program constants *)

\* time.Second, in nanoseconds (the unit of time.Duration)
Second == 1000000000

\* significand width of a float32
MantissaBits == 24

----------------------------------------------------------------------------
(* Bounds of the model *)

\* flows per configuration, unit harness
MaxFlows == 2
\* fixed packet count of a flow
MaxPackets == 4
\* packets-per-second rate of a flow
MaxRate == 2
\* records (ports or flows) per metrics snapshot
MaxItems == 2
\* frames_tx of one port record
MaxFrames == 2
\* target transmit count handed to the policy in the unit harness
MaxTarget == 3
\* metrics fetches of one run, the first one included
MaxFetches == 2
\* records per metrics snapshot in a run
MaxRunItems == 1

\* Durations stay below 2^31 ns, the integers the model checker computes with.
MaxDuration == 2 * Second + 1000

----------------------------------------------------------------------------
(* float32 *)

Pow2(k) == 2 ^ k

\* the b in lo+1..hi with 2^(b-1) <= n < 2^b, given 2^lo <= n < 2^hi
RECURSIVE BitLenIn(_, _, _)
BitLenIn(n, lo, hi) ==
    IF hi = lo + 1 THEN hi
    ELSE LET mid == (lo + hi) \div 2
         IN  IF n >= Pow2(mid) THEN BitLenIn(n, mid, hi) ELSE BitLenIn(n, lo, mid)

\* number of bits of n, 0 <= n < 2^31
BitLen(n) == IF n = 0 THEN 0 ELSE BitLenIn(n, 0, 31)

\* n / 2^s rounded to the nearest integer, ties to even (s >= 1)
RoundShift(n, s) ==
    LET q == n \div Pow2(s)
        r == n % Pow2(s)
        half == Pow2(s - 1)
    IN  IF r > half \/ (r = half /\ q % 2 = 1) THEN q + 1 ELSE q

\* the float32 nearest to p * 2^x, for an integer p >= 0: normalised so that
\* m = 0 or 2^(MantissaBits-1) <= m < 2^MantissaBits.  b is the number of
\* bits of p and q the significand after rounding, each bound to its value.
NormalizePos32(p, x) ==
    IF p = 0 THEN [m |-> 0, e |-> 0]
    ELSE CHOOSE f \in
           { IF b <= MantissaBits
             THEN [m |-> p * Pow2(MantissaBits - b), e |-> x - (MantissaBits - b)]
             ELSE CHOOSE g \in
                    { IF q = Pow2(MantissaBits)
                      THEN [m |-> Pow2(MantissaBits - 1), e |-> x + (b - MantissaBits) + 1]
                      ELSE [m |-> q, e |-> x + (b - MantissaBits)] :
                      q \in {RoundShift(p, b - MantissaBits)} } : TRUE :
             b \in {BitLen(p)} } : TRUE

\* the same for any integer p: a negative value has a negative m
Normalize32(p, x) ==
    IF p >= 0 THEN NormalizePos32(p, x)
    ELSE LET a == NormalizePos32(-p, x) IN [m |-> -a.m, e |-> a.e]

\* float32(d) of an int64 d
Float32(d) == Normalize32(d, 0)

\* a * x in float32, for a float32 a and x = n / 2^k with a small n
MulFloat32(a, x) == Normalize32(a.m * x.n, a.e - x.k)

\* a < b for float32 a, b > 0
LessPos32(a, b) == a.e < b.e \/ (a.e = b.e /\ a.m < b.m)

\* a < b for float32 a, b
LessFloat32(a, b) ==
    CASE a.m = 0 -> b.m > 0
      [] a.m < 0 -> b.m >= 0 \/ LessPos32([m |-> -b.m, e |-> b.e], [m |-> -a.m, e |-> a.e])
      [] OTHER -> b.m > 0 /\ LessPos32(a, b)

\* mutant: the closure is chosen by xeta >= 0
XetaNotNegative(x) == x.n >= 0

\* xeta > 0
XetaPositive(x) == x.n > 0

----------------------------------------------------------------------------
(* Target Calculator: calculateTrafficTargets, run.go:197-215 *)

\* mutant: a flow without rate is skipped, its packets are not counted
RECURSIVE CalcLoop_SkipsRateless(_, _, _, _, _)
CalcLoop_SkipsRateless(cfg, i, pktCountTotal, flowETA, eta) ==
    IF i > Len(cfg) THEN [targetTx |-> pktCountTotal, trafficETA |-> eta]
    ELSE IF cfg[i].pps > 0
         THEN LET flowETA2 == (cfg[i].packets \div cfg[i].pps) * Second
              IN  CalcLoop_SkipsRateless(cfg, i + 1, pktCountTotal + cfg[i].packets,
                                         flowETA2, IF flowETA2 > eta THEN flowETA2 ELSE eta)
         ELSE CalcLoop_SkipsRateless(cfg, i + 1, pktCountTotal, flowETA, eta)

\* One iteration per flow, carrying pktCountTotal, flowETA and trafficETA.
\* flowETA is declared outside the loop: a flow with pps = 0 leaves it at the
\* value the previous rate-bearing flow gave it.
RECURSIVE CalcLoop(_, _, _, _, _)
CalcLoop(cfg, i, pktCountTotal, flowETA, eta) ==
    IF i > Len(cfg) THEN [targetTx |-> pktCountTotal, trafficETA |-> eta]
    ELSE LET pktCountFlow == cfg[i].packets
             ratePPSFlow == cfg[i].pps
             flowETA2 == IF ratePPSFlow > 0
                         THEN (pktCountFlow \div ratePPSFlow) * Second
                         ELSE flowETA
             eta2 == IF flowETA2 > eta THEN flowETA2 ELSE eta
         IN  CalcLoop(cfg, i + 1, pktCountTotal + pktCountFlow, flowETA2, eta2)

calculateTrafficTargets(cfg) == CalcLoop(cfg, 1, 0, 0, 0)

----------------------------------------------------------------------------
(* Completion Policy: isTrafficRunning and isTrafficRunningWithETA *)

\* for _, pm := range PortMetrics().Items() { total_tx += pm.FramesTx() }
RECURSIVE TotalTx(_, _, _)
TotalTx(ports, i, total_tx) ==
    IF i > Len(ports) THEN total_tx ELSE TotalTx(ports, i + 1, total_tx + ports[i])

\* mutant: each record overwrites trafficRunning, the last one decides
RECURSIVE ScanFlows_Last(_, _, _)
ScanFlows_Last(flows, i, trafficRunning) ==
    IF i > Len(flows) THEN trafficRunning
    ELSE ScanFlows_Last(flows, i + 1, flows[i] # "stopped")

\* the flow-mode scan of isTrafficRunning
RECURSIVE ScanFlows(_, _, _)
ScanFlows(flows, i, trafficRunning) ==
    IF i > Len(flows) THEN trafficRunning
    ELSE ScanFlows(flows, i + 1,
                   IF ~trafficRunning /\ flows[i] # "stopped" THEN TRUE
                   ELSE trafficRunning)

\* mutant: total_tx <= targetTx
isTrafficRunning_LE(mr, target) ==
    CASE otgMetrics = "port" -> TotalTx(mr.ports, 1, 0) <= target
      [] otgMetrics = "flow" -> ScanFlows(mr.flows, 1, FALSE)
      [] OTHER -> FALSE

isTrafficRunning(mr, target) ==
    CASE otgMetrics = "port" -> TotalTx(mr.ports, 1, 0) < target
      [] otgMetrics = "flow" -> ScanFlows(mr.flows, 1, FALSE)
      [] OTHER -> FALSE

\* mutant: <= for <, the stop is forced from the deadline on
ForcedStop_AtDeadline(elapsed, eta) ==
    \E eta32 \in {Float32(eta)}, elapsed32 \in {Float32(elapsed)} :
        \E deadline32 \in {MulFloat32(eta32, xeta)} :
            ~LessFloat32(elapsed32, deadline32)

\* mutant: the operands of the comparison are swapped
ForcedStop_Swapped(elapsed, eta) ==
    \E eta32 \in {Float32(eta)}, elapsed32 \in {Float32(elapsed)} :
        \E deadline32 \in {MulFloat32(eta32, xeta)} :
            LessFloat32(elapsed32, deadline32)

\* float32(trafficETA)*xeta < float32(time.Since(start)); each of the three
\* float32 values is bound once it is computed
ForcedStop(elapsed, eta) ==
    \E eta32 \in {Float32(eta)}, elapsed32 \in {Float32(elapsed)} :
        \E deadline32 \in {MulFloat32(eta32, xeta)} :
            LessFloat32(deadline32, elapsed32)

\* the flow-mode scan of isTrafficRunningWithETA; sinces[i] is what
\* time.Since(start) returns in the iteration of flow record i
RECURSIVE ScanFlowsWithETA(_, _, _, _, _)
ScanFlowsWithETA(flows, i, trafficRunning, sinces, eta) ==
    IF i > Len(flows) THEN [running |-> trafficRunning, warned |-> 0]
    ELSE LET r == IF ~trafficRunning /\ flows[i] # "stopped" THEN TRUE
                  ELSE trafficRunning
         IN  IF ForcedStop(sinces[i], eta)
             THEN [running |-> FALSE, warned |-> 1]
             ELSE ScanFlowsWithETA(flows, i + 1, r, sinces, eta)

\* isTrafficRunningWithETA with the warnings it logs; sinces holds one clock
\* reading in port mode and one per flow record in flow mode
WithETA(mr, target, sinces, eta) ==
    CASE otgMetrics = "port" ->
            IF ForcedStop(sinces[1], eta)
            THEN [running |-> FALSE, warned |-> 1]
            ELSE [running |-> TotalTx(mr.ports, 1, 0) < target, warned |-> 0]
      [] otgMetrics = "flow" -> ScanFlowsWithETA(mr.flows, 1, FALSE, sinces, eta)
      [] OTHER -> [running |-> FALSE, warned |-> 0]

isTrafficRunningWithETA(mr, target, sinces, eta) ==
    WithETA(mr, target, sinces, eta).running

\* number of clock readings one evaluation of the policy takes
Readings(mr) ==
    CASE otgMetrics = "port" -> 1
      [] otgMetrics = "flow" -> Len(mr.flows)
      [] OTHER -> 0

----------------------------------------------------------------------------
(* Inputs *)

SeqsUpTo(S, n) == UNION { [1..k -> S] : k \in 0..n }

\* --metrics values: the two supported ones and an unsupported one
MetricsModes == {"port", "flow", "vport"}

\* --xeta values: -1, 0, 0.5, 1, 1.5, 2
Xetas == { [n |-> -1, k |-> 0], [n |-> 0, k |-> 0], [n |-> 1, k |-> 1],
           [n |-> 1, k |-> 0], [n |-> 3, k |-> 1], [n |-> 2, k |-> 0] }

\* --interval values: one without a unit, which time.ParseDuration rejects,
\* zero, and two seconds
PullIntervals == {"1", "0s", "2s"}

\* time.ParseDuration on the values above
ParseDuration(str) ==
    CASE str = "0s" -> [err |-> FALSE, d |-> 0]
      [] str = "2s" -> [err |-> FALSE, d |-> 2 * Second]
      [] OTHER -> [err |-> TRUE, d |-> 0]

\* FlowMetricTransmit values
TransmitStates == {"started", "stopped", "paused"}

\* trafficETA * xeta as a real number; it is an integer for the values above
\* because trafficETA is a multiple of time.Second
EtaTimesXeta(eta, x) == (eta \div Pow2(x.k)) * x.n

\* trafficETA * xeta is a duration the model's integers hold
FitsClock(eta, x) ==
    IF x.n <= 0 THEN TRUE ELSE eta \div Pow2(x.k) <= MaxDuration \div x.n

\* a flow whose ETA the model's integers hold
FlowFits(f) == f.pps > 0 => f.packets \div f.pps <= MaxDuration \div Second

Flows(maxPackets, maxRate) ==
    { f \in [packets : 0..maxPackets, pps : 0..maxRate] : FlowFits(f) }

\* the response to a port request holds port records, to a flow request flow
\* records
Snapshots(mode, maxItems, maxFrames) ==
    IF mode = "flow"
    THEN { [ports |-> <<>>, flows |-> fl] : fl \in SeqsUpTo(TransmitStates, maxItems) }
    ELSE { [ports |-> po, flows |-> <<>>] : po \in SeqsUpTo(0..maxFrames, maxItems) }

NoMetrics == [ports |-> <<>>, flows |-> <<>>]

\* the instants at which the clock is read: the start, the forced-stop
\* deadline and its neighbours, and a late one
Instants(eta, x) ==
    LET d == IF XetaPositive(x) THEN EtaTimesXeta(eta, x) ELSE eta
    IN  { t \in {0, 1, d - 1, d, d + 1, d + 200} : t >= 0 } \cup {MaxDuration}

\* n successive readings of time.Since(start), none before `from`
SinceReadings(n, from, eta, x) ==
    { s \in [1..n -> Instants(eta, x)] :
        /\ \A i \in 1..n : s[i] >= from
        /\ \A i \in 1..(n - 1) : s[i] <= s[i + 1] }

----------------------------------------------------------------------------
(* Run: runCmd.Run, initOTG and runTraffic *)

\* configurations of the runs explored: no flow, flows without rate, flows
\* with rate, and mixtures
RunConfigs ==
    { <<>>,
      <<[packets |-> 2, pps |-> 0]>>,
      <<[packets |-> 0, pps |-> 1]>>,
      <<[packets |-> 1, pps |-> 1]>>,
      <<[packets |-> 3, pps |-> 2], [packets |-> 1, pps |-> 0]>>,
      <<[packets |-> 1, pps |-> 2], [packets |-> 2, pps |-> 1]>> }

\* --xeta values of the runs explored: -1, 0, 1, 2
RunXetas == { x \in Xetas : x.k = 0 }

\* the default of the --xeta flag, float32(0.0), run.go:95
DefaultXeta == [n |-> 0, k |-> 0]

\* Float32VarP(&xeta, "xeta", "x", float32(0.0), ...): the variable holds the
\* value given on the command line, the default when the flag is absent
Float32VarP(flag, default) == IF flag = <<>> THEN default ELSE flag[1]

Init ==
    /\ otgMetrics \in MetricsModes
    /\ xetaFlag \in {<<>>} \cup { <<x>> : x \in RunXetas }
    /\ xeta = Float32VarP(xetaFlag, DefaultXeta)
    /\ otgPullIntervalStr \in PullIntervals
    /\ otgPullInterval = 0
    /\ input \in {"ok", "unreadable", "malformed"}
    /\ config \in RunConfigs
    /\ FitsClock(calculateTrafficTargets(config).trafficETA, xeta)
    /\ pc = "Run"
    /\ calls = <<>>
    /\ metrics = NoMetrics
    /\ targetTx = 0
    /\ trafficETA = 0
    /\ start = 0
    /\ now = 0
    /\ since = <<>>
    /\ running = FALSE
    /\ lastOut = NoMetrics
    /\ nCalc = 0 /\ nSleep = 0 /\ nEval = 0 /\ nOut = 0 /\ nWarn = 0 /\ nInfo = 0

\* log.Fatal: the process exits
Fatal == pc' = "Failed"

\* runCmd.Run, run.go:57-72, up to the call of initOTG
RunCmd ==
    /\ pc = "Run"
    /\ IF otgMetrics \notin {"port", "flow"}
       THEN Fatal /\ UNCHANGED otgPullInterval
       ELSE /\ otgPullInterval' = ParseDuration(otgPullIntervalStr).d
            /\ IF ParseDuration(otgPullIntervalStr).err THEN Fatal
               ELSE pc' = "initOTG"
    /\ UNCHANGED <<otgMetrics, xetaFlag, xeta, otgPullIntervalStr, input, config, calls, metrics,
                   targetTx, trafficETA, start, now, since, running,
                   nCalc, nSleep, nEval, nOut, lastOut, nWarn, nInfo>>

\* mutant: the configuration is returned whether or not it was read and parsed
InitOTG_NoCheck ==
    /\ pc = "initOTG"
    /\ pc' = "SetConfig"
    /\ UNCHANGED <<otgMetrics, xetaFlag, xeta, otgPullIntervalStr, otgPullInterval, input, config, calls, metrics,
                   targetTx, trafficETA, start, now, since, running,
                   nCalc, nSleep, nEval, nOut, lastOut, nWarn, nInfo>>

\* initOTG, run.go:98-133
InitOTG ==
    /\ pc = "initOTG"
    /\ IF input # "ok" THEN Fatal ELSE pc' = "SetConfig"
    /\ UNCHANGED <<otgMetrics, xetaFlag, xeta, otgPullIntervalStr, otgPullInterval, input, config, calls, metrics,
                   targetTx, trafficETA, start, now, since, running,
                   nCalc, nSleep, nEval, nOut, lastOut, nWarn, nInfo>>

\* what a remote call returns: an error, or a response with some warnings
CallOutcomes == { [res |-> "err", warnings |-> 0],
                  [res |-> "ok", warnings |-> 0],
                  [res |-> "ok", warnings |-> 1] }

Issued(op, res) == calls' = Append(calls, [op |-> op, res |-> res])

\* mutant: the error is logged and the run goes on
CheckResponseWarning_LogOnly(o, next) ==
    pc' = next /\ nInfo' = nInfo + o.warnings

\* mutant: a response that carries warnings is treated as an error
CheckResponseWarning_FatalOnWarning(o, next) ==
    IF o.res = "err" \/ o.warnings > 0
    THEN Fatal /\ nInfo' = nInfo + o.warnings
    ELSE pc' = next /\ nInfo' = nInfo

\* checkResponse(res, err) on a ResponseWarning, run.go:278-292; `next` is
\* where runTraffic goes on when it returns
CheckResponseWarning(o, next) ==
    IF o.res = "err"
    THEN Fatal /\ nInfo' = nInfo
    ELSE pc' = next /\ nInfo' = nInfo + o.warnings

\* api.SetConfig(config); checkResponse, run.go:137-140
SetConfig ==
    /\ pc = "SetConfig"
    /\ \E o \in CallOutcomes :
          /\ Issued("SetConfig", o.res)
          /\ CheckResponseWarning(o, "SetTransmitStart")
    /\ UNCHANGED <<otgMetrics, xetaFlag, xeta, otgPullIntervalStr, otgPullInterval, input, config, metrics,
                   targetTx, trafficETA, start, now, since, running,
                   nCalc, nSleep, nEval, nOut, lastOut, nWarn>>

\* api.SetTransmitState(START); checkResponse, run.go:143-147
StartTransmit ==
    /\ pc = "SetTransmitStart"
    /\ \E o \in CallOutcomes :
          /\ Issued("START", o.res)
          /\ CheckResponseWarning(o, "calculateTrafficTargets")
    /\ UNCHANGED <<otgMetrics, xetaFlag, xeta, otgPullIntervalStr, otgPullInterval, input, config, metrics,
                   targetTx, trafficETA, start, now, since, running,
                   nCalc, nSleep, nEval, nOut, lastOut, nWarn>>

\* mutant: the targets are never computed
CalcTargets_Skipped ==
    /\ pc = "calculateTrafficTargets"
    /\ pc' = "GetMetrics"
    /\ UNCHANGED <<otgMetrics, xetaFlag, xeta, otgPullIntervalStr, otgPullInterval, input, config,
                   calls, metrics, targetTx, trafficETA, start, now, since, running,
                   nCalc, nSleep, nEval, nOut, lastOut, nWarn, nInfo>>

\* targetTx, trafficETA := calculateTrafficTargets(config), run.go:149-150
CalcTargets ==
    /\ pc = "calculateTrafficTargets"
    /\ targetTx' = calculateTrafficTargets(config).targetTx
    /\ trafficETA' = calculateTrafficTargets(config).trafficETA
    /\ nCalc' = nCalc + 1
    /\ pc' = "GetMetrics"
    /\ UNCHANGED <<otgMetrics, xetaFlag, xeta, otgPullIntervalStr, otgPullInterval, input, config, calls, metrics,
                   start, now, since, running, nSleep, nEval, nOut, lastOut, nWarn, nInfo>>

\* what api.GetMetrics returns and whether the response marshals to JSON
FetchOutcomes == {"err", "ok", "unprintable"}

\* mutant: a failed fetch is not fatal, the run goes on with the old snapshot
GetMetrics_IgnoreErr(o, mr, next) ==
    /\ Issued("GetMetrics", IF o = "err" THEN "err" ELSE "ok")
    /\ CASE o = "err" -> pc' = next /\ UNCHANGED <<metrics, nOut, lastOut>>
         [] o = "unprintable" -> Fatal /\ metrics' = mr /\ UNCHANGED <<nOut, lastOut>>
         [] OTHER -> pc' = next /\ metrics' = mr /\ nOut' = nOut + 1 /\ lastOut' = mr

\* mutant: the response is checked but not printed
GetMetrics_NoPrint(o, mr, next) ==
    /\ Issued("GetMetrics", IF o = "err" THEN "err" ELSE "ok")
    /\ CASE o = "err" -> Fatal /\ UNCHANGED <<metrics, nOut, lastOut>>
         [] o = "unprintable" -> Fatal /\ metrics' = mr /\ UNCHANGED <<nOut, lastOut>>
         [] OTHER -> pc' = next /\ metrics' = mr /\ UNCHANGED <<nOut, lastOut>>

\* metrics, err = api.GetMetrics(req); checkResponse(metrics, err): on an
\* error the process exits, else the response is printed as raw JSON
\* (printMetricsResponseRawJson exits when it cannot be marshalled)
GetMetrics(o, mr, next) ==
    /\ Issued("GetMetrics", IF o = "err" THEN "err" ELSE "ok")
    /\ CASE o = "err" -> Fatal /\ UNCHANGED <<metrics, nOut, lastOut>>
         [] o = "unprintable" -> Fatal /\ metrics' = mr /\ UNCHANGED <<nOut, lastOut>>
         [] OTHER -> pc' = next /\ metrics' = mr /\ nOut' = nOut + 1 /\ lastOut' = mr

\* how long the first fetch takes, nanoseconds
FetchTimes == {100}

\* the first fetch and start := time.Now(), run.go:152-168; the fetch takes
\* some time d
FirstFetch ==
    /\ pc = "GetMetrics"
    /\ \E o \in FetchOutcomes, mr \in Snapshots(otgMetrics, MaxRunItems, MaxFrames),
          d \in FetchTimes :
          /\ GetMetrics(o, IF o = "err" THEN metrics ELSE mr, "loop")
          /\ now' = now + d
          /\ start' = IF o = "ok" THEN now' ELSE start
    /\ UNCHANGED <<otgMetrics, xetaFlag, xeta, otgPullIntervalStr, otgPullInterval, input, config,
                   targetTx, trafficETA, since, running,
                   nCalc, nSleep, nEval, nWarn, nInfo>>

\* the readings one evaluation takes before it returns: in flow mode the scan
\* breaks at the first reading that forces the stop
RECURSIVE Taken(_, _, _)
Taken(s, i, eta) ==
    IF i > Len(s) THEN s
    ELSE IF ForcedStop(s[i], eta) THEN SubSeq(s, 1, i)
    ELSE Taken(s, i + 1, eta)

\* mutant: the loop condition is inverted
LoopBranch_Inverted(r) == IF r THEN "SetTransmitStop" ELSE "body"

\* for trafficRunning() { ... }, run.go:183: into the body while the policy
\* returns true, on to the stop otherwise
LoopBranch(r) == IF r THEN "body" ELSE "SetTransmitStop"

\* the loop condition trafficRunning(), run.go:170-183: the closure chosen by
\* xeta > 0
LoopTest ==
    /\ pc = "loop"
    /\ IF XetaPositive(xeta)
       THEN \E s \in SinceReadings(Readings(metrics), now - start, trafficETA, xeta) :
               LET r == WithETA(metrics, targetTx, s, trafficETA)
                   t == Taken(s, 1, trafficETA)
               IN  /\ running' = r.running
                   /\ nWarn' = nWarn + r.warned
                   /\ since' = t
                   /\ now' = IF t = <<>> THEN now ELSE start + t[Len(t)]
       ELSE /\ running' = isTrafficRunning(metrics, targetTx)
            /\ UNCHANGED <<nWarn, since, now>>
    /\ nEval' = nEval + 1
    /\ pc' = LoopBranch(running')
    /\ UNCHANGED <<otgMetrics, xetaFlag, xeta, otgPullIntervalStr, otgPullInterval, input, config, calls, metrics,
                   targetTx, trafficETA, start, nCalc, nSleep, nOut, lastOut, nInfo>>

\* number of metrics fetches issued
Fetches == Len(SelectSeq(calls, LAMBDA c : c.op = "GetMetrics"))

\* the loop body, run.go:184-186: sleep for the poll interval, fetch again.
\* The clock advances by the interval, the least the sleep takes; whatever
\* more time passes shows in the next reading of time.Since(start).
Poll ==
    /\ pc = "body"
    /\ Fetches < MaxFetches
    /\ now - start <= MaxDuration - otgPullInterval
    /\ now' = now + otgPullInterval
    /\ nSleep' = nSleep + 1
    /\ \E o \in FetchOutcomes, mr \in Snapshots(otgMetrics, MaxRunItems, MaxFrames) :
          GetMetrics(o, IF o = "err" THEN metrics ELSE mr, "loop")
    /\ UNCHANGED <<otgMetrics, xetaFlag, xeta, otgPullIntervalStr, otgPullInterval, input, config,
                   targetTx, trafficETA, start, since, running,
                   nCalc, nEval, nWarn, nInfo>>

\* api.SetTransmitState(STOP); checkResponse, run.go:189-194
StopTransmit ==
    /\ pc = "SetTransmitStop"
    /\ \E o \in CallOutcomes :
          /\ Issued("STOP", o.res)
          /\ CheckResponseWarning(o, "Done")
    /\ UNCHANGED <<otgMetrics, xetaFlag, xeta, otgPullIntervalStr, otgPullInterval, input, config, metrics,
                   targetTx, trafficETA, start, now, since, running,
                   nCalc, nSleep, nEval, nOut, lastOut, nWarn>>

Next ==
    \/ RunCmd
    \/ InitOTG
    \/ SetConfig
    \/ StartTransmit
    \/ CalcTargets
    \/ FirstFetch
    \/ LoopTest
    \/ Poll
    \/ StopTransmit

Spec == Init /\ [][Next]_vars

----------------------------------------------------------------------------------------------------------------------------------------
(* Runs in which every call returns successfully and time keeps advancing: *)
(* the specification of the liveness of the polling loop.  Every pass of   *)
(* the loop body takes some time and at least the poll interval; the clock *)
(* of the model saturates at MaxDuration, which is past every forced-stop  *)
(* deadline.  The number of polls is not bounded.  runTraffic is one       *)
(* sequential goroutine that runs until the process exits, so its next     *)
(* step is always taken.                                                   *)

\* runs with --xeta > 0 and no configuration error
InitLive ==
    /\ Init
    /\ xeta.n > 0
    /\ otgMetrics \in {"port", "flow"}
    /\ ~ParseDuration(otgPullIntervalStr).err
    /\ input = "ok"

\* the step does not end in log.Fatal: the call returned successfully (and,
\* warnings making no difference to a run, without warnings)
Succeeds == pc' # "Failed" /\ nInfo' = nInfo

\* the instants later than the elapsed time `e` by at least the interval
LaterInstants(e) ==
    { t \in Instants(trafficETA, xeta) :
        /\ t > e
        /\ t >= (IF e >= MaxDuration - otgPullInterval THEN MaxDuration
                 ELSE e + otgPullInterval) }

\* the loop body, run.go:184-186, with the clock advancing: to the first
\* instant that is later by at least the interval.  Whatever more time passes
\* shows in the next reading of time.Since(start).
PollAdvancing ==
    /\ pc = "body"
    /\ LaterInstants(now - start) # {}
    /\ now' = start + (CHOOSE t \in LaterInstants(now - start) :
                          \A u \in LaterInstants(now - start) : t <= u)
    /\ nSleep' = nSleep + 1
    /\ \E o \in FetchOutcomes, mr \in Snapshots(otgMetrics, MaxRunItems, MaxFrames) :
          GetMetrics(o, IF o = "err" THEN metrics ELSE mr, "loop")
    /\ UNCHANGED <<otgMetrics, xetaFlag, xeta, otgPullIntervalStr, otgPullInterval, input, config,
                   targetTx, trafficETA, start, since, running,
                   nCalc, nEval, nWarn, nInfo>>

NextLive ==
    \/ RunCmd
    \/ InitOTG
    \/ SetConfig /\ Succeeds
    \/ StartTransmit /\ Succeeds
    \/ CalcTargets
    \/ FirstFetch /\ Succeeds
    \/ LoopTest
    \/ PollAdvancing /\ Succeeds
    \/ StopTransmit /\ Succeeds

SpecLive == InitLive /\ [][NextLive]_vars /\ WF_vars(NextLive)

----------------
(* Unit harness: the pure functions applied to inputs drawn from bounded   *)
(* sets, as a unit test would call them.                                   *)

UnitConfigs == SeqsUpTo(Flows(MaxPackets, MaxRate), MaxFlows)

\* the clock readings handed to isTrafficRunningWithETA in the harness
UnitInstants(eta, x) ==
    LET d == IF XetaPositive(x) THEN EtaTimesXeta(eta, x) ELSE eta
    IN  {0, d, d + 1, d + 200}

UnitReadings(n, eta, x) ==
    { s \in [1..n -> UnitInstants(eta, x)] : \A i \in 1..(n - 1) : s[i] <= s[i + 1] }

InitUnit ==
    /\ otgPullIntervalStr = "0s"
    /\ otgPullInterval = 0
    /\ input = "ok"
    /\ calls = <<>>
    /\ start = 0
    /\ now = 0
    /\ running = FALSE
    /\ lastOut = NoMetrics
    /\ nCalc = 0 /\ nSleep = 0 /\ nEval = 0 /\ nOut = 0 /\ nWarn = 0 /\ nInfo = 0
    /\ pc \in {"unit_calc", "unit_policy"}
    /\ IF pc = "unit_calc"
       THEN /\ config \in UnitConfigs
            /\ otgMetrics = "port"
            /\ xeta = DefaultXeta
            /\ xetaFlag = <<>>
            /\ metrics = NoMetrics
            /\ targetTx = 0
            /\ trafficETA = 0
            /\ since = <<>>
       ELSE /\ config = <<>>
            /\ otgMetrics \in MetricsModes
            /\ xeta \in Xetas
            /\ xetaFlag = <<xeta>>
            /\ trafficETA \in {0, Second, 2 * Second}
            /\ FitsClock(trafficETA, xeta)
            /\ targetTx \in 0..MaxTarget
            /\ metrics \in Snapshots(otgMetrics, MaxItems, MaxFrames)
            /\ since \in UnitReadings(Readings(metrics), trafficETA, xeta)

\* targetTx, trafficETA := calculateTrafficTargets(config)
UnitCalc ==
    /\ pc = "unit_calc"
    /\ targetTx' = calculateTrafficTargets(config).targetTx
    /\ trafficETA' = calculateTrafficTargets(config).trafficETA
    /\ nCalc' = nCalc + 1
    /\ pc' = "calc_done"
    /\ UNCHANGED <<otgMetrics, xetaFlag, xeta, otgPullIntervalStr, otgPullInterval, input, config,
                   calls, metrics, start, now, since, running,
                   nSleep, nEval, nOut, lastOut, nWarn, nInfo>>

\* isTrafficRunning(metrics, targetTx)
UnitPlain ==
    /\ pc = "unit_policy"
    /\ running' = isTrafficRunning(metrics, targetTx)
    /\ nEval' = nEval + 1
    /\ pc' = "plain_done"
    /\ UNCHANGED <<otgMetrics, xetaFlag, xeta, otgPullIntervalStr, otgPullInterval, input, config,
                   calls, metrics, targetTx, trafficETA, start, now, since,
                   nCalc, nSleep, nOut, lastOut, nWarn, nInfo>>

\* isTrafficRunningWithETA(metrics, targetTx, start, trafficETA), the clock
\* returning the readings of `since`
UnitWithETA ==
    /\ pc = "unit_policy"
    /\ running' = isTrafficRunningWithETA(metrics, targetTx, since, trafficETA)
    /\ nWarn' = nWarn + WithETA(metrics, targetTx, since, trafficETA).warned
    /\ nEval' = nEval + 1
    /\ pc' = "eta_done"
    /\ UNCHANGED <<otgMetrics, xetaFlag, xeta, otgPullIntervalStr, otgPullInterval, input, config,
                   calls, metrics, targetTx, trafficETA, start, now, since,
                   nCalc, nSleep, nOut, lastOut, nInfo>>

NextUnit ==
    \/ UnitCalc
    \/ UnitPlain
    \/ UnitWithETA

SpecUnit == InitUnit /\ [][NextUnit]_vars

----------------------------------------------------------------------------
(* Properties *)

\* helpers of the properties
Ops == [i \in 1..Len(calls) |-> calls[i].op]

CountOp(op) == Cardinality({ i \in 1..Len(calls) : calls[i].op = op })

PastStart == pc \in {"calculateTrafficTargets", "GetMetrics", "loop", "body",
                     "SetTransmitStop", "Done"}

RECURSIVE SumSeq(_)
SumSeq(q) == IF q = <<>> THEN 0 ELSE SumSeq(Tail(q)) + Head(q)

MaxOf(S) == CHOOSE m \in S : \A v \in S : v <= m

\* the metric condition of the claims: the target is reached (port mode),
\* every flow record is STOPPED (flow mode)
MetricReached ==
    IF otgMetrics = "port" THEN SumSeq(metrics.ports) >= targetTx
    ELSE \A i \in 1..Len(metrics.flows) : metrics.flows[i] = "stopped"

\* C1: the remote calls of a run are issued in the order SetConfig, START,
\* one or more metrics fetches, STOP.  START is issued at most once, only
\* after SetConfig succeeded, and exactly once in every run that went past
\* it; STOP is issued at most once, as the last call, only after START
\* succeeded and at least one fetch succeeded.
C1_CallOrder ==
    /\ \A i \in 1..Len(calls) : (Ops[i] = "SetConfig") <=> (i = 1)
    /\ \A i \in 1..Len(calls) : (Ops[i] = "START") <=> (i = 2)
    /\ Len(calls) >= 2 => calls[1].res = "ok"
    /\ CountOp("START") <= 1
    /\ PastStart => CountOp("START") = 1
    /\ \A i \in 3..Len(calls) : Ops[i] \in {"GetMetrics", "STOP"}
    /\ CountOp("STOP") <= 1
    /\ \A i \in 1..Len(calls) :
          Ops[i] = "STOP" =>
             /\ i = Len(calls)
             /\ i >= 4
             /\ calls[2].res = "ok"
             /\ \A j \in 3..(i - 1) : Ops[j] = "GetMetrics" /\ calls[j].res = "ok"

\* a complete run: two fetches, then STOP
C1_Witness ==
    /\ pc = "Done"
    /\ Ops = <<"SetConfig", "START", "GetMetrics", "GetMetrics", "STOP">>

\* C2: a remote call that returned an error is the last call of the run and
\* the run is Failed: nothing is issued after it, it is not retried, and no
\* STOP follows a failed fetch.
C2_ErrorIsFatal ==
    \A i \in 1..Len(calls) :
        calls[i].res = "err" => i = Len(calls) /\ pc = "Failed"

\* START succeeded, a later fetch failed: the run is Failed without a STOP
C2_Witness ==
    /\ pc = "Failed"
    /\ Len(calls) = 4
    /\ calls[2] = [op |-> "START", res |-> "ok"]
    /\ calls[3] = [op |-> "GetMetrics", res |-> "ok"]
    /\ calls[4] = [op |-> "GetMetrics", res |-> "err"]

\* C3 as claimed: with xeta > 0, an evaluation of the policy at which the
\* elapsed time exceeds trafficETA * xeta returns running = false.
C3_ForcedStopPastDeadline ==
    (/\ pc \in {"body", "SetTransmitStop"}
     /\ xeta.n > 0
     /\ Len(since) > 0
     /\ since[1] > EtaTimesXeta(trafficETA, xeta))
    => running = FALSE

\* C4 as claimed: with trafficETA = 0 and xeta > 0 the multiplier has no
\* effect, the loop is left only when the metric condition holds.
C4_ZeroEtaNoForcedStop ==
    (/\ pc = "SetTransmitStop"
     /\ xeta.n > 0
     /\ trafficETA = 0)
    => MetricReached

\* C5: with xeta <= 0, STOP is issued only when the last snapshot fetched
\* satisfies the metric condition, however much time has passed.
C5_StopOnlyOnMetric ==
    (/\ xeta.n <= 0
     /\ (pc = "SetTransmitStop" \/ CountOp("STOP") > 0))
    => MetricReached

\* xeta <= 0, the loop has polled, the clock is past the ETA, STOP was issued
C5_Witness ==
    /\ xeta.n <= 0
    /\ pc = "Done"
    /\ nSleep >= 1
    /\ trafficETA > 0
    /\ now - start >= 2 * trafficETA

\* C6: in port mode isTrafficRunning returns true iff the sum of the ports'
\* frames_tx is below the target.
C6_PortRunning ==
    (pc = "plain_done" /\ otgMetrics = "port")
    => (running <=> SumSeq(metrics.ports) < targetTx)

\* two ports whose counts add up to exactly the target: not running
C6_Witness ==
    /\ pc = "plain_done"
    /\ otgMetrics = "port"
    /\ Len(metrics.ports) = 2
    /\ metrics.ports[1] > 0 /\ metrics.ports[2] > 0
    /\ metrics.ports[1] + metrics.ports[2] = targetTx
    /\ running = FALSE

\* C7: in flow mode isTrafficRunning returns true iff some flow record is not
\* STOPPED, whatever the target.
C7_FlowRunning ==
    (pc = "plain_done" /\ otgMetrics = "flow")
    => (running <=> \E i \in 1..Len(metrics.flows) : metrics.flows[i] # "stopped")

\* a running flow record followed by a stopped one, with a target of zero
C7_Witness ==
    /\ pc = "plain_done"
    /\ otgMetrics = "flow"
    /\ metrics.flows = <<"started", "stopped">>
    /\ targetTx = 0
    /\ running = TRUE

\* the flows of a configuration but the i-th
Without(cfg, i) == SubSeq(cfg, 1, i - 1) \o SubSeq(cfg, i + 1, Len(cfg))

\* C8: calculateTrafficTargets returns the sum of all packet counts and the
\* largest floor(packets / pps) seconds over the flows with pps > 0 (0 when
\* there is none); dropping a flow with pps = 0 leaves the ETA as it is.
C8_Targets ==
    pc = "calc_done" =>
       /\ targetTx = SumSeq([i \in 1..Len(config) |-> config[i].packets])
       /\ trafficETA =
             MaxOf({0} \cup { (config[i].packets \div config[i].pps) * Second :
                                 i \in { j \in 1..Len(config) : config[j].pps > 0 } })
       /\ \A i \in 1..Len(config) :
             config[i].pps = 0 =>
                calculateTrafficTargets(Without(config, i)).trafficETA = trafficETA

\* a flow without rate after a flow whose ETA is floor(3/2) = 1 s
C8_Witness ==
    /\ pc = "calc_done"
    /\ Len(config) = 2
    /\ config[1] = [packets |-> 3, pps |-> 2]
    /\ config[2] = [packets |-> 4, pps |-> 0]
    /\ targetTx = 7
    /\ trafficETA = Second

\* C9: the step in which the policy returns false leads straight to the stop:
\* it neither sleeps nor fetches, and the step after it issues STOP as the
\* next remote call, without another evaluation.
C9_ExitAtOnce ==
    [][ /\ (pc = "loop" /\ ~running') =>
            (pc' = "SetTransmitStop" /\ calls' = calls /\ nSleep' = nSleep)
        /\ pc = "SetTransmitStop" =>
            /\ calls' = Append(calls, [op |-> "STOP", res |-> calls'[Len(calls')].res])
            /\ nSleep' = nSleep
            /\ nEval' = nEval ]_vars

\* the loop polled once, then the policy returned false and STOP was issued
C9_Witness ==
    /\ pc = "Done"
    /\ nSleep = 1
    /\ nEval = 2
    /\ running = FALSE
    /\ calls[Len(calls)].op = "STOP"

\* C10 as claimed: the targets are computed before START is issued.
C10_ComputedBeforeStart ==
    CountOp("START") > 0 => nCalc = 1

\* C10 amended: the targets are computed at most once, after START succeeded
\* and before the first metrics fetch is issued, and every run that went
\* past START has computed them exactly once, from the configuration.
C10_ComputedOnceAfterStart ==
    /\ nCalc <= 1
    /\ nCalc = 1 => (Len(calls) >= 2 /\ calls[2] = [op |-> "START", res |-> "ok"])
    /\ CountOp("GetMetrics") > 0 => nCalc = 1
    /\ pc \in {"GetMetrics", "loop", "body", "SetTransmitStop", "Done"} =>
          /\ nCalc = 1
          /\ targetTx = SumSeq([i \in 1..Len(config) |-> config[i].packets])
    /\ nCalc = 0 => (targetTx = 0 /\ trafficETA = 0)

\* the targets are computed, START is the last call issued
C10_Witness ==
    /\ pc = "GetMetrics"
    /\ nCalc = 1
    /\ targetTx > 0
    /\ Ops = <<"SetConfig", "START">>

\* the forced-stop deadline trafficETA * xeta of the run
Deadline == EtaTimesXeta(trafficETA, xeta)

\* C11 as claimed: under the target-or-timeout policy an evaluation logs one
\* forced-stop warning if one of its clock readings is past trafficETA * xeta
\* and none otherwise, and a run logs at most one.
C11_WarningExactlyOnce ==
    [][ (pc = "loop" /\ xeta.n > 0) =>
           /\ nWarn' <= 1
           /\ nWarn' - nWarn =
                 IF \E i \in 1..Len(since') : since'[i] > Deadline THEN 1 ELSE 0 ]_vars

\* C12: a run with a configuration error (a metrics mode other than "port"
\* and "flow", an interval time.ParseDuration rejects, an input that cannot
\* be read or parsed) issues no remote call and gets no further than the
\* step that detects the error, which ends it as Failed.
C12_ConfigErrorFatalAtStartup ==
    /\ (\/ otgMetrics \notin {"port", "flow"}
        \/ ParseDuration(otgPullIntervalStr).err) =>
          (calls = <<>> /\ pc \in {"Run", "Failed"})
    /\ input # "ok" =>
          (calls = <<>> /\ pc \in {"Run", "initOTG", "Failed"})

\* flags are fine, the input is malformed: Failed in initOTG, no call issued
C12_Witness ==
    /\ pc = "Failed"
    /\ otgMetrics = "flow"
    /\ ~ParseDuration(otgPullIntervalStr).err
    /\ input = "malformed"
    /\ calls = <<>>

\* where runTraffic goes on after a call that returned a ResponseWarning
AfterCall(op) ==
    CASE op = "SetConfig" -> "SetTransmitStart"
      [] op = "START" -> "calculateTrafficTargets"
      [] op = "STOP" -> "Done"

\* C13: a step that issues SetConfig, START or STOP and gets a response
\* without error goes on to the same place whether or not the response carries
\* warnings: it never fails, and besides the position and the call log it
\* changes only the count of logged warnings, which no step reads.
C13_WarningsNonFatal ==
    [][ (/\ Len(calls') = Len(calls) + 1
         /\ calls'[Len(calls')].op \in {"SetConfig", "START", "STOP"}
         /\ calls'[Len(calls')].res = "ok") =>
           /\ pc' = AfterCall(calls'[Len(calls')].op)
           /\ nInfo' \in {nInfo, nInfo + 1}
           /\ UNCHANGED <<otgMetrics, xetaFlag, xeta, otgPullIntervalStr, otgPullInterval,
                          input, config, metrics, targetTx, trafficETA, start, now, since,
                          running, nCalc, nSleep, nEval, nOut, lastOut, nWarn>> ]_vars

\* a complete run in which every response carried a warning
C13_Witness ==
    /\ pc = "Done"
    /\ nInfo = 3
    /\ Ops[Len(Ops)] = "STOP"

\* C15 as claimed: without --xeta the multiplier is 2, so the run evaluates
\* the target-or-timeout policy, which reads the clock at every evaluation in
\* port mode.
C15_DefaultXetaIsTwo ==
    xetaFlag = <<>> =>
       /\ xeta = [n |-> 2, k |-> 0]
       /\ (pc \in {"body", "SetTransmitStop"} /\ otgMetrics = "port") => Len(since) = 1

\* C16: with xeta > 0, every call returning successfully and time advancing,
\* every run leaves the polling loop and issues STOP, whatever the snapshots
\* hold.
C16_EventuallyStops ==
    <>(CountOp("STOP") > 0)

\* the target was never reached, the loop polled more than once and was
\* stopped by the deadline
C16_Witness ==
    /\ pc = "Done"
    /\ xeta.n > 0
    /\ nSleep >= 2
    /\ ~MetricReached
    /\ nWarn = 1
    /\ Ops[Len(Ops)] = "STOP"

C18_ClockBeforeFirstFetch ==
    [][ (pc = "GetMetrics" /\ pc' = "loop") =>
           (start' = now /\ now' - start' > 0) ]_vars

\* what the policy the run uses returns on snapshot mr, with the clock
\* readings of the last evaluation
PolicyOn(mr) ==
    IF xeta.n > 0 THEN isTrafficRunningWithETA(mr, targetTx, since, trafficETA)
    ELSE isTrafficRunning(mr, targetTx)

\* C19: whenever the policy is about to be or has been evaluated, every
\* metrics fetch issued so far returned without error and wrote exactly one
\* snapshot, and the last snapshot written is the last one fetched; so when
\* STOP is issued the snapshots written are as many as the successful
\* fetches, and the last one written is the one on which the policy returned
\* false.  (A fetch that fails, or whose response cannot be marshalled, ends
\* the run before the policy is evaluated again.)
C19_OneSnapshotPerFetch ==
    /\ pc \in {"loop", "body", "SetTransmitStop", "Done"} =>
          /\ nOut = Fetches
          /\ \A i \in 1..Len(calls) : calls[i].op = "GetMetrics" => calls[i].res = "ok"
          /\ lastOut = metrics
    /\ (pc = "SetTransmitStop" \/ CountOp("STOP") > 0) =>
          /\ nOut = Fetches /\ nOut >= 1
          /\ running = FALSE
          /\ ~PolicyOn(lastOut)

\* two fetches, two snapshots written, the second one ended the loop
C19_Witness ==
    /\ pc = "Done"
    /\ Fetches = 2
    /\ nOut = 2
    /\ otgMetrics = "port"
    /\ targetTx = 2
    /\ lastOut.ports = <<2>>

\* C20: in port mode with a target of 0 the first evaluation returns false
\* under either policy, whatever the frame counts: the run fetches once, never
\* enters the loop body, never sleeps, and its calls are SetConfig, START,
\* one GetMetrics, STOP.
C20_ZeroTargetStopsAtOnce ==
    (otgMetrics = "port" /\ nCalc = 1 /\ targetTx = 0) =>
       /\ pc # "body"
       /\ nSleep = 0
       /\ Fetches <= 1
       /\ pc \in {"SetTransmitStop", "Done"} =>
             (Fetches = 1 /\ nEval = 1 /\ running = FALSE)
       /\ CountOp("STOP") > 0 => Ops = <<"SetConfig", "START", "GetMetrics", "STOP">>

\* target 0 under the target-or-timeout policy, a port that reports frames:
\* stopped after one fetch, by the target and not by the deadline
C20_Witness ==
    /\ pc = "Done"
    /\ otgMetrics = "port"
    /\ xeta.n > 0
    /\ Len(config) = 1
    /\ targetTx = 0
    /\ metrics.ports = <<2>>
    /\ nWarn = 0
    /\ Ops = <<"SetConfig", "START", "GetMetrics", "STOP">>

====
